---- MODULE Spec2Model ----
(***************************************************************************)
(* Model of the icn-node proposal lifecycle: the file-based proposal queue *)
(* (queue.rs), the execution coordinator (executor.rs), the lock-guarded   *)
(* node state (state.rs) and the federation broadcaster (federation.rs).   *)
(*                                                                         *)
(* Three commands of main.rs run as separate operating-system processes,   *)
(* each with its own in-memory STATE and all sharing the ~/.icn directory: *)
(*   "run"   - run_daemon: the periodic queue sweep (process_queue);       *)
(*   "watch" - watch_queue: one detached task per filesystem event;        *)
(*   "exec"  - the Execute command: one call of execute_proposal_file.     *)
(* A fourth process, "api", is a program that calls the public functions   *)
(* of state.rs, dag.rs and federation.rs directly (SpecApi).               *)
(*                                                                         *)
(* A file name is the sequence of its '_'-separated parts, so that         *)
(* split('_') and format!("proposal_{}_{}.dsl") are modelled by what they  *)
(* do: "proposal_1_pending.dsl" is <<"proposal","1","pending.dsl">> and    *)
(* the unsuffixed "proposal_1.dsl" is <<"proposal","1.dsl">>.              *)
(***************************************************************************)
EXTENDS Integers, Sequences, FiniteSets, TLC

\* ------------------------------------------------------------------ bounds

\* Files the environment (a user, the AgoraNet sync script) drops in the queue.
MaxPlaced == 1

\* Iterations of the daemon loop, one sweep each.
MaxSweeps == 1

\* Detached execution tasks the watcher spawns.
MaxSpawn == 1

\* Calls of the crate's functions a program makes one after the other.
MaxCalls == 2

\* Peers in the federation configuration the mesh-status script prints.
MaxPeers == 2

\* Longest proposal id, in bytes, of the file names parsed on their own.
MaxIdLen == 2

\* ------------------------------------------------------------ file names

Statuses == {"pending", "executing", "completed", "failed", "rejected"}

\* The five variants of ProposalStatus and the word update_proposal_status
\* writes for each, followed by the ".dsl" of its format string.
StatusFile(status) ==
    CASE status = "pending" -> "pending.dsl"
      [] status = "executing" -> "executing.dsl"
      [] status = "completed" -> "completed.dsl"
      [] status = "failed" -> "failed.dsl"
      [] status = "rejected" -> "rejected.dsl"

\* The bytes of every part a file name of the model is made of.
PartBytes(part) ==
    CASE part = "proposal" -> <<112, 114, 111, 112, 111, 115, 97, 108>>
      [] part = "1" -> <<49>>
      [] part = "2" -> <<50>>
      [] part = "3" -> <<51>>
      [] part = "10" -> <<49, 48>>
      [] part = "1.dsl" -> <<49, 46, 100, 115, 108>>
      [] part = "2.dsl" -> <<50, 46, 100, 115, 108>>
      [] part = "notes.dsl" -> <<110, 111, 116, 101, 115, 46, 100, 115, 108>>
      [] part = "readme.txt" ->
           <<114, 101, 97, 100, 109, 101, 46, 116, 120, 116>>
      [] part = "pending.dsl" ->
           <<112, 101, 110, 100, 105, 110, 103, 46, 100, 115, 108>>
      [] part = "executing.dsl" ->
           <<101, 120, 101, 99, 117, 116, 105, 110, 103, 46, 100, 115, 108>>
      [] part = "completed.dsl" ->
           <<99, 111, 109, 112, 108, 101, 116, 101, 100, 46, 100, 115, 108>>
      [] part = "failed.dsl" -> <<102, 97, 105, 108, 101, 100, 46, 100, 115, 108>>
      [] part = "rejected.dsl" ->
           <<114, 101, 106, 101, 99, 116, 101, 100, 46, 100, 115, 108>>

RECURSIVE NameBytes(_)
\* The file name as the operating system holds it: the parts joined by '_'.
NameBytes(name) ==
    IF Len(name) = 1 THEN PartBytes(name[1])
    ELSE PartBytes(name[1]) \o <<95>> \o NameBytes(Tail(name))

RECURSIVE BytesLess(_, _)
\* Ord of two paths of one directory: byte-wise lexicographic.
BytesLess(a, b) ==
    IF b = <<>> THEN FALSE
    ELSE IF a = <<>> THEN TRUE
    ELSE IF a[1] # b[1] THEN a[1] < b[1]
    ELSE BytesLess(Tail(a), Tail(b))

RECURSIVE SortNames(_)
\* proposal_files.sort(): the paths in ascending order.
SortNames(S) ==
    IF S = {} THEN <<>>
    ELSE LET m == CHOOSE x \in S :
                    \A y \in S \ {x} : BytesLess(NameBytes(x), NameBytes(y))
         IN <<m>> \o SortNames(S \ {m})

\* filename.ends_with(".dsl") and path.extension() == "dsl".
HasDslExt(name) ==
    LET b == NameBytes(name)
        n == Len(b)
    IN n >= 4 /\ SubSeq(b, n - 3, n) = <<46, 100, 115, 108>>

\* The listing filter of process_queue: ends_with("_pending.dsl") ||
\* ends_with(".dsl").
SweepSelects(name) ==
    \/ (Len(name) >= 2 /\ name[Len(name)] = "pending.dsl")
    \/ HasDslExt(name)

\* extract_proposal_id: parts = filename.split('_'); Ok(parts[1]) when there
\* are at least two parts and the first is "proposal", else a Queue error.
ExtractOk(name) == Len(name) >= 2 /\ name[1] = "proposal"

extract_proposal_id(name) == name[2]

\* format!("proposal_{}_{}.dsl", proposal_id, status_str)
StatusName(id, status) == <<"proposal", id, StatusFile(status)>>

\* ------------------------------------------------------------- payloads

\* What a proposal file holds, by what validation and the engine make of it:
\*   "ok"       passes validation, the engine returns status code 0;
\*   "nonzero"  passes validation, the engine returns a non-zero status code;
\*   "engerr"   passes validation, the engine invocation returns an error;
\*   "nofield"  fails the structural check (braces, title:, description:),
\*              the engine returns status code 0 when it is run all the same;
\*   "dryfail"  passes the structural check, the dry run returns an error.
Payloads == {"ok", "nonzero", "engerr", "nofield", "dryfail"}

\* The structural part of validate_proposal.
StructOk(payload) == payload # "nofield"

\* execute_program_from_path with options.simulate (the dry run).
DryRunOk(payload) == payload # "dryfail"

\* execute_program_from_path with production options: the status code, or
\* "err" for an Err result.
EngineResult(payload) ==
    CASE payload \in {"ok", "nofield"} -> "zero"
      [] payload = "nonzero" -> "nonzero"
      [] OTHER -> "err"

\* ---------------------------------------------------------------- state

\* The three commands of main.rs, each its own process with its own STATE,
\* and a program that calls the crate's public functions directly.
Procs == {"run", "watch", "exec", "api"}

ApiProc == "api"

SweepTask == <<"sweep", 0>>
CmdTask == <<"cmd", 0>>
WatchTasks == {<<"w", i>> : i \in 1..MaxSpawn}
Tasks == {SweepTask, CmdTask} \cup WatchTasks

\* The process a task runs in.
ProcOf(t) ==
    CASE t = SweepTask -> "run"
      [] t = CmdTask -> "exec"
      [] OTHER -> "watch"

\* The files the environment places in the queue directory, as <<name,
\* payload>>: a pending proposal of each kind of payload, the unsuffixed
\* form, a file an interrupted run left with status executing, and a file
\* whose name does not follow the proposal_ convention.
PlaceChoices ==
    {<<<<"proposal", "1", "pending.dsl">>, "ok">>,
     <<<<"proposal", "1", "pending.dsl">>, "nofield">>,
     <<<<"proposal", "1", "pending.dsl">>, "dryfail">>,
     <<<<"proposal", "1", "executing.dsl">>, "ok">>,
     <<<<"proposal", "1", "executing.dsl">>, "nonzero">>,
     <<<<"proposal", "1", "executing.dsl">>, "engerr">>,
     <<<<"proposal", "1.dsl">>, "ok">>,
     <<<<"notes.dsl">>, "ok">>}

\* A file outside the queue directory, for the Execute command.
OutsideFiles == [n \in {<<"proposal", "2", "pending.dsl">>} |-> "ok"]

\* NodeState::default(): the fields of the document the model follows.
DefaultState == [executed_proposals |-> <<>>, dag_vertices |-> <<>>]

\* The state of a node on which proposal 2 was executed before.
HistoryState ==
    [executed_proposals |-> <<"2">>,
     dag_vertices |-> <<[id |-> "v2", proposal_id |-> "2"]>>]

NoFrame == [dir |-> "none", name |-> <<>>, force |-> FALSE, id |-> "none",
            eng |-> "none", ret |-> "none"]

\* No call of a crate function in progress or made.
NoCall == [pc |-> "idle", op |-> "none", arg |-> "none", pre |-> <<>>,
           ret |-> "none", calls |-> 0, logged |-> FALSE, peers |-> <<>>,
           i |-> 0, net |-> <<>>,
           prev |-> [op |-> "none", arg |-> "none", ret |-> "none"],
           online |-> <<>>, offline |-> <<>>, found |-> "none"]

\* The processes whose start is followed step by step.
Savers == {"run", "watch", "exec"}

\* No process has started; the backup directory is empty.
NoSaves == [pc |-> [p \in Savers |-> "off"],
            ret |-> [p \in Savers |-> "none"],
            out |-> [p \in Savers |-> "none"],
            backed |-> [p \in Savers |-> FALSE],
            owner |-> "none", backup |-> "none", torn |-> FALSE]

\* No file name is being parsed.
NoParse == [step |-> "none", id |-> <<>>, form |-> "none", file |-> <<>>,
            ret |-> "none", got |-> <<>>, to |-> "none", file2 |-> <<>>,
            ret2 |-> "none", got2 |-> <<>>]

\* watch_dag before its first check: nothing observed, nothing sent.
NoPoll == [pc |-> "run", ret |-> "none", last_count |-> 0, sent |-> <<>>]

\* watch_dag_and_queue before its tasks run: the queue watcher about to set
\* up, no filesystem event delivered, its channel empty, nothing logged by
\* the consumer, which is in its loop.
NoChan == [qpc |-> "setup", cur |-> <<>>, fs |-> 0, queueq |-> <<>>,
           qsent |-> <<>>, spawns |-> 0, got |-> <<>>, pc |-> "loop"]

VARIABLES
    queue,      \* ~/.icn/queue: file name -> payload
    archive,    \* ~/.icn/executed: file name -> payload
    rejlog,     \* ~/.icn/logs/rejected.log: sequence of [id, reason]
    disk,       \* ~/.icn/state.json: [present, doc]
    proc,       \* per process: "off", "up" or "dead"
    mem,        \* per process: STATE, [doc, lock]
    pc,         \* per task: its position
    co,         \* per task: the frame of execute_proposal_file
    sweep,      \* process_queue: [files, i, count, n, last]
    events,     \* paths of the watcher's pending filesystem events
    spawned,    \* tasks the watcher has spawned
    placed,     \* files the environment has placed
    ecalls,     \* engine invocations: <<mode, file name>> -> count
    api,        \* the call a program using the crate's functions is in
    daglog,     \* ~/.icn/logs/dag.log: the vertices logged, in order
    sv,         \* state::init followed step by step: per process its
                \* position, result and backup; the state file's writer
    poll,       \* dag::watch_dag in the watch process: [pc, ret,
                \* last_count, sent]
    parse,      \* a file name, byte by byte, and what extract_proposal_id
                \* and update_proposal_status make of it
    chan        \* watch_dag_and_queue: the queue watcher's position, its
                \* channel, and the events the consumer has logged

\* The variables the commands of main.rs leave alone in Spec: those of
\* direct calls of the crate's functions, of the stepwise state::init and
\* of the ledger poller, and the file name parsed on its own.
apivars == <<api, daglog, sv, poll, parse, chan>>

vars == <<queue, archive, rejlog, disk, proc, mem, pc, co, sweep, events,
          spawned, placed, ecalls, api, daglog, sv, poll, parse, chan>>

\* A map with one more key, or one key rebound.
Put(f, k, v) == [x \in DOMAIN f \cup {k} |-> IF x = k THEN v ELSE f[x]]

\* A map without a key.
Drop(f, k) == [x \in DOMAIN f \ {k} |-> f[x]]

\* One more invocation of the engine in `mode` on the file `name`.
Called(mode, name) ==
    LET k == <<mode, name>>
    IN Put(ecalls, k, IF k \in DOMAIN ecalls THEN ecalls[k] + 1 ELSE 1)

\* Events the watcher receives for the paths S (Create or Modify of a path
\* in the watched queue directory), once watch_queue has set it up.
Notify(S) == IF proc["watch"] = "up" THEN events \cup S ELSE events

Init ==
    /\ \E hist \in BOOLEAN :
         /\ disk = [present |-> hist,
                    doc |-> IF hist THEN HistoryState ELSE DefaultState]
         /\ queue = IF hist
                    THEN [n \in {StatusName("2", "completed")} |-> "ok"]
                    ELSE <<>>
         /\ archive = queue
    /\ rejlog = <<>>
    /\ proc = [p \in Procs |-> "off"]
    /\ mem = [p \in Procs |-> [doc |-> DefaultState, lock |-> "free"]]
    /\ pc = [t \in Tasks |-> "idle"]
    /\ co = [t \in Tasks |-> NoFrame]
    /\ sweep = [files |-> <<>>, i |-> 0, count |-> 0, n |-> 0, last |-> "none"]
    /\ events = {}
    /\ spawned = 0
    /\ placed = 0
    /\ ecalls = <<>>
    /\ api = NoCall
    /\ daglog = <<>>
    /\ sv = NoSaves
    /\ poll = NoPoll
    /\ chan = NoChan
    /\ parse = NoParse

\* --------------------------------------------------------- environment

\* A proposal file appears in the queue directory.
PlaceFile ==
    /\ placed < MaxPlaced
    /\ \E c \in PlaceChoices :
         /\ c[1] \notin DOMAIN queue
         /\ queue' = Put(queue, c[1], c[2])
         /\ events' = Notify({c[1]})
    /\ placed' = placed + 1
    /\ UNCHANGED <<archive, rejlog, disk, proc, mem, pc, co, sweep, spawned,
                   ecalls>>
    /\ UNCHANGED apivars

\* ------------------------------------------------------------- state.rs

\* load_state: *global_state = the parsed state file.
load_state(p) == [mem EXCEPT ![p].doc = disk.doc]

\* save_state called with the lock free: the document is written whole.
save_state(p) == [present |-> TRUE, doc |-> mem[p].doc]

\* state::init at the start of main: load the state file when it exists,
\* write the defaults when it does not.
StateInit(p) ==
    IF disk.present
    THEN /\ mem' = load_state(p)
         /\ UNCHANGED disk
    ELSE /\ disk' = save_state(p)
         /\ UNCHANGED mem

\* get_executed_proposals under the lock.
get_executed_proposals(p) ==
    {mem[p].doc.executed_proposals[i] :
        i \in 1..Len(mem[p].doc.executed_proposals)}

\* The ids a document lists as executed.
ExecutedIds(doc) ==
    {doc.executed_proposals[i] : i \in 1..Len(doc.executed_proposals)}

\* The push of add_executed_proposal: only an id the list does not hold.
PushExecuted(doc, id) ==
    IF \E i \in 1..Len(doc.executed_proposals) : doc.executed_proposals[i] = id
    THEN doc
    ELSE [doc EXCEPT !.executed_proposals = Append(@, id)]

\* What locking STATE a second time on the thread that holds it does:
\* std::sync::Mutex::lock leaves it unspecified, it never returns; it blocks
\* for ever ("hang", the guard is never released) or it panics ("panic",
\* the guard is dropped while unwinding and the mutex is poisoned).
RelockOutcomes == {"hang", "panic"}


\* ------------------------------------------------------------- queue.rs

\* The files of a directory of the model.
Dir(d) == IF d = "queue" THEN queue ELSE OutsideFiles

\* update_proposal_status succeeds when the file name follows the
\* convention and fs::rename finds its source.
RenameOk(name) == ExtractOk(name) /\ name \in DOMAIN queue

\* A status change that copies the file and leaves its source in place.
update_proposal_status_copy(name, status) ==
    Put(queue, StatusName(extract_proposal_id(name), status), queue[name])

\* The queue directory after fs::rename(file_path, new_path): the source
\* name is gone, the new name holds its content (replacing what it held).
update_proposal_status(name, status) ==
    Put(Drop(queue, name), StatusName(extract_proposal_id(name), status),
        queue[name])

\* The events a rename in the watched directory raises: one for the old
\* path, one for the new; renaming a file to its own name raises none.
RenameEvents(name, status) ==
    LET new == StatusName(extract_proposal_id(name), status)
    IN IF new = name THEN {} ELSE {name, new}

\* log_rejected_proposal: one more line in rejected.log.
log_rejected_proposal(id, reason) ==
    Append(rejlog, [id |-> id, reason |-> reason])

\* ---------------------------------------------------------- executor.rs

\* A task runs while its process lives.
Alive(t) == proc[ProcOf(t)] = "up"

\* The coordinator returns `r` ("ok" or the kind of its NodeError) to its
\* caller: the sweep goes on in process_queue, any other task ends.
Return(t, r) ==
    /\ co' = [co EXCEPT ![t].ret = r]
    /\ pc' = [pc EXCEPT ![t] = IF t = SweepTask THEN "sw_after" ELSE "done"]

\* Lines 26-44: the file must exist; the proposal id is parsed from its
\* name, or is the whole name when that does not follow the convention.
CoExists(t) ==
    /\ Alive(t)
    /\ pc[t] = "co_exists"
    /\ LET f == co[t]
       IN IF f.name \notin DOMAIN Dir(f.dir)
          THEN Return(t, "Execution")
          ELSE /\ co' = [co EXCEPT ![t].id =
                            IF ExtractOk(f.name)
                            THEN extract_proposal_id(f.name)
                            ELSE f.name[1]]
               /\ pc' = [pc EXCEPT ![t] =
                            IF ~f.force THEN "co_validate"
                            ELSE IF f.dir = "queue" THEN "co_mark"
                            ELSE "co_run"]
    /\ UNCHANGED <<queue, archive, rejlog, disk, proc, mem, sweep, events,
                   spawned, placed, ecalls>>
    /\ UNCHANGED apivars

\* Lines 46-51 with validate_proposal: a file that cannot be read is a
\* Validation error; a payload that fails the structural check or the dry
\* run is logged as rejected and is a Validation error. The file keeps its
\* name.
CoValidate(t) ==
    /\ Alive(t)
    /\ pc[t] = "co_validate"
    /\ LET f == co[t]
           present == f.name \in DOMAIN Dir(f.dir)
           payload == Dir(f.dir)[f.name]
       IN /\ ecalls' = IF present /\ StructOk(payload)
                       THEN Called("simulate", f.name)
                       ELSE ecalls
          /\ IF ~present
             THEN Return(t, "Validation") /\ UNCHANGED rejlog
             ELSE IF StructOk(payload) /\ DryRunOk(payload)
             THEN /\ pc' = [pc EXCEPT ![t] =
                              IF f.dir = "queue" THEN "co_mark" ELSE "co_run"]
                  /\ UNCHANGED <<co, rejlog>>
             ELSE /\ rejlog' = log_rejected_proposal(
                                   f.id, "Proposal validation failed")
                  /\ Return(t, "Validation")
    /\ UNCHANGED <<queue, archive, disk, proc, mem, sweep, events, spawned,
                   placed>>
    /\ UNCHANGED apivars

\* The status the coordinator gives a queued file before it runs the engine.
MarkStatus == "executing"

\* Lines 53-56: a queued file is renamed to status executing.
CoMark(t) ==
    /\ Alive(t)
    /\ pc[t] = "co_mark"
    /\ LET f == co[t]
       IN IF RenameOk(f.name)
          THEN /\ queue' = update_proposal_status(f.name, MarkStatus)
               /\ events' = Notify(RenameEvents(f.name, MarkStatus))
               /\ pc' = [pc EXCEPT ![t] = "co_run"]
               /\ UNCHANGED co
          ELSE /\ Return(t, "Queue")
               /\ UNCHANGED <<queue, events>>
    /\ UNCHANGED <<archive, rejlog, disk, proc, mem, sweep, spawned, placed,
                   ecalls>>
    /\ UNCHANGED apivars

\* The path run_covm hands to the engine: `path`, the name the file had
\* when the coordinator was called.
RunName(f) == f.name

\* Lines 58-62 with run_covm: the engine is invoked with production options.
\* A path that names no file, and an Err of the engine, are an Execution
\* error.
CoRun(t) ==
    /\ Alive(t)
    /\ pc[t] = "co_run"
    /\ LET f == co[t]
           name == RunName(f)
           present == name \in DOMAIN Dir(f.dir)
           res == IF present THEN EngineResult(Dir(f.dir)[name]) ELSE "err"
       IN /\ ecalls' = Called("execute", name)
          /\ CASE res = "err" -> Return(t, "Execution")
               [] res = "zero" ->
                    /\ co' = [co EXCEPT ![t].eng = "zero"]
                    /\ pc' = [pc EXCEPT ![t] =
                                IF f.dir = "queue" THEN "co_archive"
                                ELSE "co_record"]
               [] res = "nonzero" ->
                    IF f.dir = "queue"
                    THEN /\ co' = [co EXCEPT ![t].eng = "nonzero"]
                         /\ pc' = [pc EXCEPT ![t] = "co_fail"]
                    ELSE /\ co' = [co EXCEPT ![t].eng = "nonzero",
                                             ![t].ret = "ok"]
                         /\ pc' = [pc EXCEPT ![t] =
                                     IF t = SweepTask THEN "sw_after"
                                     ELSE "done"]
    /\ UNCHANGED <<queue, archive, rejlog, disk, proc, mem, sweep, events,
                   spawned, placed>>
    /\ UNCHANGED apivars

\* Lines 66-70: fs::copy(path, executed/proposal_<id>_completed.dsl).
CoArchive(t) ==
    /\ Alive(t)
    /\ pc[t] = "co_archive"
    /\ LET f == co[t]
       IN IF f.name \in DOMAIN queue
          THEN /\ archive' = Put(archive, StatusName(f.id, "completed"),
                                 queue[f.name])
               /\ pc' = [pc EXCEPT ![t] = "co_complete"]
               /\ UNCHANGED co
          ELSE /\ Return(t, "Io")
               /\ UNCHANGED archive
    /\ UNCHANGED <<queue, rejlog, disk, proc, mem, sweep, events, spawned,
                   placed, ecalls>>
    /\ UNCHANGED apivars

\* Lines 72-73: the queued file is renamed to status completed.
CoComplete(t) ==
    /\ Alive(t)
    /\ pc[t] = "co_complete"
    /\ LET f == co[t]
       IN IF RenameOk(f.name)
          THEN /\ queue' = update_proposal_status(f.name, "completed")
               /\ events' = Notify(RenameEvents(f.name, "completed"))
               /\ pc' = [pc EXCEPT ![t] = "co_record"]
               /\ UNCHANGED co
          ELSE /\ Return(t, "Queue")
               /\ UNCHANGED <<queue, events>>
    /\ UNCHANGED <<archive, rejlog, disk, proc, mem, sweep, spawned, placed,
                   ecalls>>
    /\ UNCHANGED apivars

\* Lines 76-77 with add_executed_proposal: STATE is locked, the id is
\* pushed, and save_state locks STATE again while the guard is alive. That
\* second lock never returns (RelockOutcomes), so neither does the call:
\* lines 79-92 (the vertex, add_vertex, store_execution_output) are never
\* reached. A poisoned mutex is a State error; a mutex held by a hung task
\* blocks the caller for ever.
CoRecord(t) ==
    /\ Alive(t)
    /\ pc[t] = "co_record"
    /\ LET p == ProcOf(t)
       IN /\ mem[p].lock # "held"
          /\ IF mem[p].lock = "poisoned"
             THEN /\ Return(t, "State")
                  /\ UNCHANGED <<mem, proc>>
             ELSE \E o \in RelockOutcomes :
                    /\ mem' = [mem EXCEPT
                                 ![p].doc = PushExecuted(@, co[t].id),
                                 ![p].lock = IF o = "hang" THEN "held"
                                             ELSE "poisoned"]
                    /\ pc' = [pc EXCEPT ![t] = IF o = "hang" THEN "hung"
                                               ELSE "panicked"]
                    \* A panic of the main task ends the process.
                    /\ proc' = IF o = "panic" /\ t \in {SweepTask, CmdTask}
                               THEN [proc EXCEPT ![p] = "dead"]
                               ELSE proc
                    /\ UNCHANGED co
    /\ UNCHANGED <<queue, archive, rejlog, disk, sweep, events, spawned,
                   placed, ecalls>>
    /\ UNCHANGED apivars

\* A coordinator that marks a failed run completed.
FailStatus_completed == "completed"

\* The status the coordinator gives a queued file whose engine run
\* returned a non-zero status code.
FailStatus == "failed"

\* Lines 93-102: after a non-zero status code the queued file is renamed
\* to status failed and the result is returned.
CoFail(t) ==
    /\ Alive(t)
    /\ pc[t] = "co_fail"
    /\ LET f == co[t]
       IN IF RenameOk(f.name)
          THEN /\ queue' = update_proposal_status(f.name, FailStatus)
               /\ events' = Notify(RenameEvents(f.name, FailStatus))
               /\ Return(t, "ok")
          ELSE /\ Return(t, "Queue")
               /\ UNCHANGED <<queue, events>>
    /\ UNCHANGED <<archive, rejlog, disk, proc, mem, sweep, spawned, placed,
                   ecalls>>
    /\ UNCHANGED apivars

\* ------------------------------------------------- queue.rs: the sweep

\* process_queue returns `r` to run_daemon, which logs it and sleeps.
SweepReturn(r) ==
    /\ sweep' = [sweep EXCEPT !.last = r]
    /\ pc' = [pc EXCEPT ![SweepTask] = "daemon"]

\* Lines 34-57: the directory is listed, the selected files are sorted.
SweepList ==
    /\ Alive(SweepTask)
    /\ pc[SweepTask] = "sw_list"
    /\ sweep' = [sweep EXCEPT
                   !.files = SortNames({n \in DOMAIN queue : SweepSelects(n)}),
                   !.i = 1, !.count = 0]
    /\ pc' = [pc EXCEPT ![SweepTask] = "sw_next"]
    /\ UNCHANGED <<queue, archive, rejlog, disk, proc, mem, co, events,
                   spawned, placed, ecalls>>
    /\ UNCHANGED apivars

\* The membership check of the sweep before it calls the coordinator.
SweepSkips(id) == id \in get_executed_proposals("run")

\* Lines 59-75: the next file of the list: its id is parsed (a Queue error
\* ends the sweep), a file whose id is in the executed set is skipped, any
\* other is handed to execute_proposal_file with force false. After the
\* last file the count is returned.
SweepNext ==
    /\ Alive(SweepTask)
    /\ pc[SweepTask] = "sw_next"
    /\ mem["run"].lock # "held"
    /\ IF sweep.i > Len(sweep.files)
       THEN SweepReturn("ok") /\ UNCHANGED co
       ELSE LET name == sweep.files[sweep.i]
            IN IF ~ExtractOk(name)
               THEN SweepReturn("Queue") /\ UNCHANGED co
               ELSE IF mem["run"].lock = "poisoned"
               THEN SweepReturn("State") /\ UNCHANGED co
               ELSE IF SweepSkips(extract_proposal_id(name))
               THEN /\ sweep' = [sweep EXCEPT !.i = @ + 1]
                    /\ UNCHANGED <<pc, co>>
               ELSE /\ co' = [co EXCEPT ![SweepTask] =
                                [NoFrame EXCEPT !.dir = "queue",
                                                !.name = name]]
                    /\ pc' = [pc EXCEPT ![SweepTask] = "co_exists"]
                    /\ UNCHANGED sweep
    /\ UNCHANGED <<queue, archive, rejlog, disk, proc, mem, events, spawned,
                   placed, ecalls>>
    /\ UNCHANGED apivars

\* The status the sweep gives a file whose execution returned an error.
SweepErrStatus == "failed"

\* Lines 75-85: an Ok of the coordinator is counted; after an Err the file
\* is renamed to status failed, under the name the sweep listed it by, and
\* a failure of that rename ends the sweep with its Queue error.
SweepAfter ==
    /\ Alive(SweepTask)
    /\ pc[SweepTask] = "sw_after"
    /\ LET name == sweep.files[sweep.i]
       IN IF co[SweepTask].ret = "ok"
          THEN /\ sweep' = [sweep EXCEPT !.i = @ + 1, !.count = @ + 1]
               /\ pc' = [pc EXCEPT ![SweepTask] = "sw_next"]
               /\ UNCHANGED <<queue, events>>
          ELSE IF RenameOk(name)
          THEN /\ queue' = update_proposal_status(name, SweepErrStatus)
               /\ events' = Notify(RenameEvents(name, SweepErrStatus))
               /\ sweep' = [sweep EXCEPT !.i = @ + 1]
               /\ pc' = [pc EXCEPT ![SweepTask] = "sw_next"]
          ELSE /\ SweepReturn("Queue")
               /\ UNCHANGED <<queue, events>>
    /\ UNCHANGED <<archive, rejlog, disk, proc, mem, co, spawned, placed,
                   ecalls>>
    /\ UNCHANGED apivars

\* -------------------------------------------------------------- main.rs

\* Command Run: state::init, then run_daemon enters its loop.
StartRun ==
    /\ proc["run"] = "off"
    /\ StateInit("run")
    /\ proc' = [proc EXCEPT !["run"] = "up"]
    /\ pc' = [pc EXCEPT ![SweepTask] = "daemon"]
    /\ UNCHANGED <<queue, archive, rejlog, co, sweep, events, spawned, placed,
                   ecalls>>
    /\ UNCHANGED apivars

\* run_daemon: the head of the loop calls process_queue; whatever that
\* returned, the loop sleeps for the interval and comes back here.
DaemonLoop ==
    /\ Alive(SweepTask)
    /\ pc[SweepTask] = "daemon"
    /\ sweep.n < MaxSweeps
    /\ sweep' = [sweep EXCEPT !.n = @ + 1]
    /\ pc' = [pc EXCEPT ![SweepTask] = "sw_list"]
    /\ UNCHANGED <<queue, archive, rejlog, disk, proc, mem, co, events,
                   spawned, placed, ecalls>>
    /\ UNCHANGED apivars

\* Command Watch: state::init, then watch_queue sets the watcher up on the
\* queue directory.
StartWatch ==
    /\ proc["watch"] = "off"
    /\ StateInit("watch")
    /\ proc' = [proc EXCEPT !["watch"] = "up"]
    /\ UNCHANGED <<queue, archive, rejlog, pc, co, sweep, events, spawned,
                   placed, ecalls>>
    /\ UNCHANGED apivars

\* watch_queue, lines 146-170: for a Create or Modify event of a path with
\* extension dsl a detached task is spawned that calls the coordinator with
\* force false.
WatchDispatch ==
    /\ proc["watch"] = "up"
    /\ spawned < MaxSpawn
    /\ \E name \in events :
         /\ events' = events \ {name}
         /\ IF HasDslExt(name)
            THEN /\ spawned' = spawned + 1
                 /\ co' = [co EXCEPT ![<<"w", spawned + 1>>] =
                             [NoFrame EXCEPT !.dir = "queue", !.name = name]]
                 /\ pc' = [pc EXCEPT ![<<"w", spawned + 1>>] = "co_exists"]
            ELSE UNCHANGED <<spawned, co, pc>>
    /\ UNCHANGED <<queue, archive, rejlog, disk, proc, mem, sweep, placed,
                   ecalls>>
    /\ UNCHANGED apivars

\* Command Execute --file <dir>/<name> [--force]: state::init, then one
\* call of the coordinator.
StartExec ==
    /\ proc["exec"] = "off"
    /\ StateInit("exec")
    /\ proc' = [proc EXCEPT !["exec"] = "up"]
    /\ \E d \in {"queue", "outside"}, force \in BOOLEAN :
         \E name \in DOMAIN Dir(d) :
           co' = [co EXCEPT ![CmdTask] =
                    [NoFrame EXCEPT !.dir = d, !.name = name,
                                    !.force = force]]
    /\ pc' = [pc EXCEPT ![CmdTask] = "co_exists"]
    /\ UNCHANGED <<queue, archive, rejlog, sweep, events, spawned, placed,
                   ecalls>>
    /\ UNCHANGED apivars

\* The daemon and the watcher, the two long-running commands, on one
\* ~/.icn directory.
Next ==
    \/ PlaceFile
    \/ StartRun
    \/ StartWatch
    \/ WatchDispatch
    \/ DaemonLoop
    \/ SweepList
    \/ SweepNext
    \/ SweepAfter
    \/ \E t \in Tasks :
         \/ CoExists(t)
         \/ CoValidate(t)
         \/ CoMark(t)
         \/ CoRun(t)
         \/ CoArchive(t)
         \/ CoComplete(t)
         \/ CoRecord(t)
         \/ CoFail(t)

Spec == Init /\ [][Next]_vars

\* The steps of the daemon's main task: the loop of run_daemon, the sweep
\* and the coordinator calls the sweep makes.
DaemonStep ==
    \/ DaemonLoop
    \/ SweepList
    \/ SweepNext
    \/ SweepAfter
    \/ CoExists(SweepTask)
    \/ CoValidate(SweepTask)
    \/ CoMark(SweepTask)
    \/ CoRun(SweepTask)
    \/ CoArchive(SweepTask)
    \/ CoComplete(SweepTask)
    \/ CoRecord(SweepTask)
    \/ CoFail(SweepTask)

\* The runtime keeps running the main task of the daemon: a step it can
\* take is taken.
SpecLive == Init /\ [][Next]_vars /\ WF_vars(DaemonStep)

\* The Execute command on that directory.
NextExec ==
    \/ PlaceFile
    \/ StartExec
    \/ CoExists(CmdTask)
    \/ CoValidate(CmdTask)
    \/ CoMark(CmdTask)
    \/ CoRun(CmdTask)
    \/ CoArchive(CmdTask)
    \/ CoComplete(CmdTask)
    \/ CoRecord(CmdTask)
    \/ CoFail(CmdTask)

SpecExec == Init /\ [][NextExec]_vars

\* ------------------------------------ the crate's functions, called directly

\* The vertex ledger of a process's STATE.
Ledger(p) == mem[p].doc.dag_vertices

\* Vertex entries a caller appends or broadcasts.
Vertices == {[id |-> "v1", proposal_id |-> "1"],
             [id |-> "v3", proposal_id |-> "3"]}

\* Arguments of the generic state::set(key, value): a JSON array for the
\* ledger or the executed list, a value of another JSON type, and the
\* federation configuration object.
SetInputs ==
    {[key |-> "dag_vertices", kind |-> "list", val |-> <<>>],
     [key |-> "dag_vertices", kind |-> "list",
      val |-> <<[id |-> "v1", proposal_id |-> "1"]>>],
     [key |-> "dag_vertices", kind |-> "number", val |-> <<>>],
     [key |-> "executed_proposals", kind |-> "list", val |-> <<>>],
     [key |-> "federation_config", kind |-> "object", val |-> <<>>]}

\* Lines 186-193 of state.rs: serde_json::from_value of the document with
\* the key inserted succeeds unless a field of NodeState has the wrong type;
\* a key that is no field of NodeState is ignored.
SetValid(in) ==
    in.key \in {"dag_vertices", "executed_proposals"} => in.kind = "list"

\* The document set(key, value) stores in STATE.
SetDoc(doc, in) ==
    CASE in.key = "dag_vertices" -> [doc EXCEPT !.dag_vertices = in.val]
      [] in.key = "executed_proposals" ->
           [doc EXCEPT !.executed_proposals = in.val]
      [] OTHER -> doc

\* A program may make its next call.
ApiIdle ==
    /\ proc[ApiProc] = "up"
    /\ api.pc = "idle"
    /\ api.calls < MaxCalls

\* The frame of a call that starts.
Begin(op, arg) ==
    [NoCall EXCEPT !.op = op, !.arg = arg, !.pre = Ledger(ApiProc),
                   !.calls = api.calls + 1,
                   !.prev = [op |-> api.op, arg |-> api.arg,
                             ret |-> api.ret]]

\* The frame of a call that has returned r.
Returned(f, r) == [f EXCEPT !.pc = "idle", !.ret = r]

\* STATE with the guard of the running call released or taken.
Lock(l) == [mem EXCEPT ![ApiProc].lock = l]

\* The program starts: state::init.
StartApi ==
    /\ proc[ApiProc] = "off"
    /\ proc' = [proc EXCEPT ![ApiProc] = "up"]
    /\ StateInit(ApiProc)
    /\ UNCHANGED <<queue, archive, rejlog, pc, co, sweep, events, spawned,
                   placed, ecalls, apivars>>

\* state::add_vertex, lines 200-205: lock STATE and push the vertex.  The
\* lock of a poisoned mutex is a State error.
AddVertexCall ==
    /\ ApiIdle
    /\ \E v \in Vertices :
         IF mem[ApiProc].lock = "poisoned"
         THEN /\ api' = Returned(Begin("add_vertex", v), "State")
              /\ UNCHANGED mem
         ELSE /\ api' = [Begin("add_vertex", v) EXCEPT !.pc = "av_log"]
              /\ mem' = [mem EXCEPT ![ApiProc].doc.dag_vertices = Append(@, v),
                                    ![ApiProc].lock = "held"]
    /\ UNCHANGED <<queue, archive, rejlog, disk, proc, pc, co, sweep, events,
                   spawned, placed, ecalls, daglog, sv, poll, parse, chan>>

\* state::add_vertex, line 207, with log_vertex: the entry is appended to
\* dag.log; an I/O error returns from add_vertex, which drops the guard and
\* leaves the vertex pushed.
AddVertexLog ==
    /\ api.pc = "av_log"
    /\ \E ok \in BOOLEAN :
         IF ok
         THEN /\ daglog' = Append(daglog, api.arg)
              /\ api' = [api EXCEPT !.pc = "relock", !.logged = TRUE]
              /\ UNCHANGED mem
         ELSE /\ api' = Returned(api, "Io")
              /\ mem' = Lock("free")
              /\ UNCHANGED daglog
    /\ UNCHANGED <<queue, archive, rejlog, disk, proc, pc, co, sweep, events,
                   spawned, placed, ecalls, sv, poll, parse, chan>>

\* save_state called by add_vertex (line 209), add_executed_proposal (line
\* 255) and set (line 194) while the caller's guard is alive: line 120
\* locks STATE a second time on the same thread.
Relock ==
    /\ api.pc = "relock"
    /\ \E o \in RelockOutcomes :
         IF o = "hang"
         THEN /\ api' = [api EXCEPT !.pc = "hung", !.ret = "hang"]
              /\ UNCHANGED mem
         ELSE /\ api' = Returned(api, "panic")
              /\ mem' = Lock("poisoned")
    /\ UNCHANGED <<queue, archive, rejlog, disk, proc, pc, co, sweep, events,
                   spawned, placed, ecalls, daglog, sv, poll, parse, chan>>

\* state::add_executed_proposal, lines 247-253.
AddExecutedCall ==
    /\ ApiIdle
    /\ \E id \in {"1", "2"} :
         IF mem[ApiProc].lock = "poisoned"
         THEN /\ api' = Returned(Begin("add_executed_proposal", id), "State")
              /\ UNCHANGED mem
         ELSE /\ api' = [Begin("add_executed_proposal", id)
                           EXCEPT !.pc = "relock"]
              /\ mem' = [mem EXCEPT
                           ![ApiProc].doc = PushExecuted(@, id),
                           ![ApiProc].lock = "held"]
    /\ UNCHANGED <<queue, archive, rejlog, disk, proc, pc, co, sweep, events,
                   spawned, placed, ecalls, daglog, sv, poll, parse, chan>>

\* state::set, lines 175-192: STATE becomes the document with the key
\* replaced; a value of the wrong type is a State error that leaves STATE
\* as it was.
SetCall ==
    /\ ApiIdle
    /\ \E in \in SetInputs :
         CASE mem[ApiProc].lock = "poisoned" ->
                /\ api' = Returned(Begin("set", in), "State")
                /\ UNCHANGED mem
           [] mem[ApiProc].lock # "poisoned" /\ ~SetValid(in) ->
                /\ api' = Returned(Begin("set", in), "State")
                /\ UNCHANGED mem
           [] OTHER ->
                /\ api' = [Begin("set", in) EXCEPT !.pc = "relock"]
                /\ mem' = [mem EXCEPT ![ApiProc].doc = SetDoc(@, in),
                                      ![ApiProc].lock = "held"]
    /\ UNCHANGED <<queue, archive, rejlog, disk, proc, pc, co, sweep, events,
                   spawned, placed, ecalls, daglog, sv, poll, parse, chan>>

\* state::save_state called on its own: the document of STATE is written
\* to the state file.
SaveStateCall ==
    /\ ApiIdle
    /\ IF mem[ApiProc].lock = "poisoned"
       THEN /\ api' = Returned(Begin("save_state", "none"), "State")
            /\ UNCHANGED disk
       ELSE /\ api' = Returned(Begin("save_state", "none"), "ok")
            /\ disk' = save_state(ApiProc)
    /\ UNCHANGED <<queue, archive, rejlog, proc, mem, pc, co, sweep, events,
                   spawned, placed, ecalls, daglog, sv, poll, parse, chan>>

\* state::load_state called on its own: STATE becomes the document of the
\* state file; a missing file and a poisoned mutex are State errors.
LoadStateCall ==
    /\ ApiIdle
    /\ IF mem[ApiProc].lock = "poisoned" \/ ~disk.present
       THEN /\ api' = Returned(Begin("load_state", "none"), "State")
            /\ UNCHANGED mem
       ELSE /\ api' = Returned(Begin("load_state", "none"), "ok")
            /\ mem' = load_state(ApiProc)
    /\ UNCHANGED <<queue, archive, rejlog, disk, proc, pc, co, sweep, events,
                   spawned, placed, ecalls, daglog, sv, poll, parse, chan>>

\* ------------------------------------------------------- federation.rs

\* The peers of the default configuration, lines 179-192: localhost.
DefaultPeers == <<0>>

\* The peers of a configuration the mesh-status script prints.
PeerList(n) == [i \in 1..n |-> i]

\* What ../scripts/mesh-status.sh does for get_federation_config: it is not
\* there, bash cannot be started, it exits non-zero, it prints something
\* that is no FederationConfig, or it prints one with n peers.
ScriptOutcomes ==
    {[out |-> o, n |-> 0] :
        o \in {"absent", "spawnfail", "nonzero", "badjson"}}
    \cup {[out |-> "config", n |-> k] : k \in 0..MaxPeers}

\* What a peer answers to POST /dag/vertices: a success status, another
\* status, or nothing (the request fails).
PushOutcomes == {"accepted", "rejected", "error"}

\* federation::broadcast_vertex is called with a vertex.
BroadcastCall ==
    /\ ApiIdle
    /\ \E v \in Vertices :
         api' = [Begin("broadcast_vertex", v) EXCEPT !.pc = "bc_config"]
    /\ UNCHANGED <<queue, archive, rejlog, disk, proc, mem, pc, co, sweep,
                   events, spawned, placed, ecalls, daglog, sv, poll, parse, chan>>

\* get_federation_config: state::get("federation_config") finds no such
\* key in NodeState (or a poisoned mutex), so the script is consulted; a
\* script that cannot be started or parsed is a Federation error that line
\* 39 of broadcast_vertex passes on with `?`.  The configuration is then
\* stored with state::set, whose result is dropped: with the mutex poisoned
\* set returns at once, otherwise it goes on to save_state.
GetFederationConfig ==
    /\ api.pc = "bc_config"
    /\ \E script \in ScriptOutcomes :
         IF script.out \in {"spawnfail", "badjson"}
         THEN /\ api' = Returned(api, "Federation")
              /\ UNCHANGED mem
         ELSE LET peers == IF script.out = "config" THEN PeerList(script.n)
                           ELSE DefaultPeers
              IN IF mem[ApiProc].lock = "poisoned"
                 THEN /\ api' = [api EXCEPT !.pc = "bc_peer", !.peers = peers]
                      /\ UNCHANGED mem
                 ELSE /\ api' = [api EXCEPT !.pc = "relock", !.peers = peers]
                      /\ mem' = Lock("held")
    /\ UNCHANGED <<queue, archive, rejlog, disk, proc, pc, co, sweep, events,
                   spawned, placed, ecalls, daglog, sv, poll, parse, chan>>

\* A broadcaster that posts the vertex whatever the probe answered.
PushedProbes_any == {"up", "down"}

\* Line 49 of broadcast_vertex: the outcomes of check_peer_status after
\* which the vertex is posted to the peer.
PushedProbes == {"up"}

\* Lines 42-68 of broadcast_vertex, one turn of the loop: the peer is
\* probed with check_peer_status and, when the probe succeeds, the vertex
\* is posted; every outcome is logged and the loop goes on.
BroadcastPeer ==
    /\ api.op = "broadcast_vertex"
    /\ api.pc = "bc_peer"
    /\ api.i < Len(api.peers)
    /\ \E probe \in {"up", "down"}, push \in PushOutcomes :
         LET peer == api.peers[api.i + 1]
             sent == IF probe \in PushedProbes
                     THEN <<<<peer, "probe", probe>>, <<peer, "push", push>>>>
                     ELSE <<<<peer, "probe", probe>>>>
         IN api' = [api EXCEPT !.i = @ + 1, !.net = @ \o sent]
    /\ UNCHANGED <<queue, archive, rejlog, disk, proc, mem, pc, co, sweep,
                   events, spawned, placed, ecalls, daglog, sv, poll, parse, chan>>

\* Lines 70-92 of broadcast_vertex: the federation-check script is run when
\* it exists, whatever it does is logged, and Ok(()) is returned.
BroadcastSync ==
    /\ api.op = "broadcast_vertex"
    /\ api.pc = "bc_peer"
    /\ api.i = Len(api.peers)
    /\ \E sync \in {"absent", "ok", "failed"} :
         api' = Returned(api, "ok")
    /\ UNCHANGED <<queue, archive, rejlog, disk, proc, mem, pc, co, sweep,
                   events, spawned, placed, ecalls, daglog, sv, poll, parse, chan>>

\* federation::check_federation_health is called; it begins, as
\* broadcast_vertex does, with get_federation_config.
HealthCall ==
    /\ ApiIdle
    /\ api' = [Begin("check_federation_health", "none")
                 EXCEPT !.pc = "bc_config"]
    /\ UNCHANGED <<queue, archive, rejlog, disk, proc, mem, pc, co, sweep,
                   events, spawned, placed, ecalls, daglog, sv, poll, parse, chan>>

\* The last_seen a peer carries in the configuration: the second peer the
\* script prints has one of an earlier report, the others have none.
ConfigSeen(peer) == IF peer = 2 THEN "old" ELSE "none"

\* A health check that finds no peer online.
IsOnline_never(probe) == FALSE

\* Line 104 of check_federation_health: the peer counts as online when
\* check_peer_status returned Ok.
IsOnline(probe) == probe = "up"

\* Lines 103-111 of check_federation_health, one turn of the loop: the
\* peer is probed; a copy of it goes to online_peers with last_seen set to
\* the time of the check, or unchanged to offline_peers.
HealthPeer ==
    /\ api.op = "check_federation_health"
    /\ api.pc = "bc_peer"
    /\ api.i < Len(api.peers)
    /\ \E probe \in {"up", "down"} :
         LET peer == api.peers[api.i + 1]
             new == [api EXCEPT !.i = @ + 1,
                                !.net = Append(@, <<peer, "probe", probe>>)]
         IN api' = IF IsOnline(probe)
                   THEN [new EXCEPT !.online =
                           Append(@, [peer |-> peer, last_seen |-> "now"])]
                   ELSE [new EXCEPT !.offline =
                           Append(@, [peer |-> peer,
                                      last_seen |-> ConfigSeen(peer)])]
    /\ UNCHANGED <<queue, archive, rejlog, disk, proc, mem, pc, co, sweep,
                   events, spawned, placed, ecalls, daglog, sv, poll, parse, chan>>

\* Lines 114-120 of check_federation_health: the status is returned.
HealthReturn ==
    /\ api.op = "check_federation_health"
    /\ api.pc = "bc_peer"
    /\ api.i = Len(api.peers)
    /\ api' = Returned(api, "ok")
    /\ UNCHANGED <<queue, archive, rejlog, disk, proc, mem, pc, co, sweep,
                   events, spawned, placed, ecalls, daglog, sv, poll, parse, chan>>

\* ---------------------------------------------------------------- dag.rs

\* state::get(key), lines 159-171: a poisoned mutex and a key that the
\* serialized NodeState does not have are State errors; otherwise the
\* value of the field.  Of the fields of NodeState the document keeps the
\* executed list and the ledger.
get(p, key) ==
    IF mem[p].lock = "poisoned" \/ key \notin DOMAIN mem[p].doc
    THEN [ret |-> "State", val |-> "none"]
    ELSE [ret |-> "ok", val |-> mem[p].doc[key]]

\* dag::get_all_vertices, lines 82-85: the ledger of the value that
\* state::get returns for the key "state".
get_all_vertices(p) ==
    LET state == get(p, "state")
    IN IF state.ret = "ok"
       THEN [ret |-> "ok", val |-> state.val.dag_vertices]
       ELSE state

\* dag::get_vertex, lines 88-95: the error of get_all_vertices, or the
\* first entry with the id, or a Dag error when there is none.
get_vertex(p, id) ==
    LET all == get_all_vertices(p)
    IN IF all.ret # "ok" THEN all
       ELSE IF \E k \in 1..Len(all.val) : all.val[k].id = id
       THEN [ret |-> "ok",
             val |-> all.val[CHOOSE k \in 1..Len(all.val) :
                               /\ all.val[k].id = id
                               /\ \A j \in 1..(k - 1) : all.val[j].id # id]]
       ELSE [ret |-> "Dag", val |-> "none"]

\* Vertex ids a caller looks up.
LookupIds == {"v1", "v2", "v9"}

\* dag::get_vertex is called.
GetVertexCall ==
    /\ ApiIdle
    /\ \E id \in LookupIds :
         LET r == get_vertex(ApiProc, id)
         IN api' = Returned([Begin("get_vertex", id) EXCEPT !.found = r.val],
                            r.ret)
    /\ UNCHANGED <<queue, archive, rejlog, disk, proc, mem, pc, co, sweep,
                   events, spawned, placed, ecalls, daglog, sv, poll, parse, chan>>

\* dag::get_dag_info, lines 34-68: the error of get_all_vertices (`?`,
\* line 36), or the summary of the ledger: its length, root_count 1, the
\* id of the last entry as the only tip, or no tip, the number of tips, and
\* the timestamps of the first and the last entry, written here as the
\* ids of the entries they are read from ("now" for an empty ledger).
get_dag_info(p) ==
    LET all == get_all_vertices(p)
    IN IF all.ret # "ok" THEN all
       ELSE LET n == Len(all.val)
                tips == IF n > 0 THEN <<all.val[n].id>> ELSE <<>>
            IN [ret |-> "ok",
                val |-> [vertex_count |-> n,
                         root_count |-> 1,
                         tip_count |-> Len(tips),
                         genesis_time |-> IF n = 0 THEN "now"
                                          ELSE all.val[1].id,
                         latest_update |-> IF n = 0 THEN "now"
                                           ELSE all.val[n].id,
                         tips |-> tips]]

\* dag::get_dag_info is called.
GetDagInfoCall ==
    /\ ApiIdle
    /\ LET r == get_dag_info(ApiProc)
       IN api' = Returned([Begin("get_dag_info", "none") EXCEPT
                             !.found = r.val],
                          r.ret)
    /\ UNCHANGED <<queue, archive, rejlog, disk, proc, mem, pc, co, sweep,
                   events, spawned, placed, ecalls, daglog, sv, poll, parse,
                   chan>>

\* dag::watch_dag, lines 101-119, one turn of the loop of the task that
\* watch_dag_and_queue spawns: an error of get_all_vertices ends the task;
\* otherwise a notification is sent for every entry after the first
\* last_count ones, and last_count becomes the length.  The lock of STATE
\* blocks while another task of the process holds it.
PollDag ==
    /\ proc["watch"] = "up"
    /\ poll.pc = "run"
    /\ mem["watch"].lock # "held"
    /\ LET all == get_all_vertices("watch")
       IN IF all.ret # "ok"
          THEN poll' = [poll EXCEPT !.pc = "ended", !.ret = all.ret]
          ELSE IF Len(all.val) > poll.last_count
          THEN poll' = [poll EXCEPT
                          !.sent = @ \o [k \in 1..(Len(all.val)
                                                   - poll.last_count) |->
                                           all.val[poll.last_count + k].id],
                          !.last_count = Len(all.val)]
          ELSE UNCHANGED poll
    /\ UNCHANGED <<queue, archive, rejlog, disk, proc, mem, pc, co, sweep,
                   events, spawned, placed, ecalls, api, daglog, sv, parse, chan>>

\* The Watch command with its ledger poller, next to the daemon.
NextPoll ==
    \/ Next
    \/ PollDag

\* The runtime keeps running the poller's task.
SpecPoll == Init /\ [][NextPoll]_vars /\ WF_vars(PollDag)

\* -------------------------------------------- file names, byte by byte

RECURSIVE Split(_)
\* filename.split('_'): the pieces between the bytes '_' (95), in order.
Split(b) ==
    IF b = <<>> THEN <<<<>>>>
    ELSE LET r == Split(Tail(b))
         IN IF b[1] = 95 THEN <<<<>>>> \o r
            ELSE <<<<b[1]>> \o r[1]>> \o Tail(r)

\* extract_proposal_id on the bytes of a file name, lines 174-182: the
\* second piece when there are two and the first is "proposal", else a
\* Queue error.
extract_proposal_id_bytes(b) ==
    LET parts == Split(b)
    IN IF Len(parts) >= 2 /\ parts[1] = PartBytes("proposal")
       THEN [ret |-> "ok", id |-> parts[2]]
       ELSE [ret |-> "Queue", id |-> <<>>]

\* format!("proposal_{}_{}.dsl", proposal_id, status_str), line 201.
FormatName(id, status) ==
    PartBytes("proposal") \o <<95>> \o id \o <<95>>
      \o PartBytes(StatusFile(status))

\* Proposal ids: the strings of one to MaxIdLen of the bytes '1', 'a', '_'.
IdBytes ==
    UNION {[1..n -> {49, 97, 95}] : n \in 1..MaxIdLen}

\* The forms of a file name: one per status, the unsuffixed
\* proposal_<id>.dsl, and <id>.dsl, which does not follow the convention.
Forms == Statuses \cup {"unsuffixed", "other"}

\* The file name of an id in a form.
FileOf(id, form) ==
    CASE form = "unsuffixed" ->
           PartBytes("proposal") \o <<95>> \o id \o <<46, 100, 115, 108>>
      [] form = "other" -> id \o <<46, 100, 115, 108>>
      [] OTHER -> FormatName(id, form)

\* A file name of some id in some form is about to be parsed.
InitNames ==
    /\ queue = <<>>
    /\ archive = <<>>
    /\ disk = [present |-> FALSE, doc |-> DefaultState]
    /\ rejlog = <<>>
    /\ proc = [p \in Procs |-> "off"]
    /\ mem = [p \in Procs |-> [doc |-> DefaultState, lock |-> "free"]]
    /\ pc = [t \in Tasks |-> "idle"]
    /\ co = [t \in Tasks |-> NoFrame]
    /\ sweep = [files |-> <<>>, i |-> 0, count |-> 0, n |-> 0, last |-> "none"]
    /\ events = {}
    /\ spawned = 0
    /\ placed = 0
    /\ ecalls = <<>>
    /\ api = NoCall
    /\ daglog = <<>>
    /\ sv = NoSaves
    /\ poll = NoPoll
    /\ chan = NoChan
    /\ \E id \in IdBytes, form \in Forms :
         parse = [NoParse EXCEPT !.step = "new", !.id = id, !.form = form,
                                 !.file = FileOf(id, form)]

\* extract_proposal_id is applied to the file name.
ExtractId ==
    /\ parse.step = "new"
    /\ LET r == extract_proposal_id_bytes(parse.file)
       IN parse' = [parse EXCEPT !.step = "parsed", !.ret = r.ret,
                                 !.got = r.id]
    /\ UNCHANGED <<queue, archive, rejlog, disk, proc, mem, pc, co, sweep,
                   events, spawned, placed, ecalls, api, daglog, sv, poll,
                   chan>>

\* update_proposal_status, lines 190-202: the name of the file after a
\* transition to `status`, made of the id parsed from its name.
TransitionName ==
    /\ parse.step = "parsed"
    /\ parse.ret = "ok"
    /\ \E status \in Statuses :
         parse' = [parse EXCEPT !.step = "renamed", !.to = status,
                                !.file2 = FormatName(parse.got, status)]
    /\ UNCHANGED <<queue, archive, rejlog, disk, proc, mem, pc, co, sweep,
                   events, spawned, placed, ecalls, api, daglog, sv, poll,
                   chan>>

\* extract_proposal_id is applied to the name the transition produced.
ExtractAgain ==
    /\ parse.step = "renamed"
    /\ LET r == extract_proposal_id_bytes(parse.file2)
       IN parse' = [parse EXCEPT !.step = "reparsed", !.ret2 = r.ret,
                                 !.got2 = r.id]
    /\ UNCHANGED <<queue, archive, rejlog, disk, proc, mem, pc, co, sweep,
                   events, spawned, placed, ecalls, api, daglog, sv, poll,
                   chan>>

NextNames ==
    \/ ExtractId
    \/ TransitionName
    \/ ExtractAgain

SpecNames == InitNames /\ [][NextNames]_vars

\* The AgoraNet sync script (or a user) delivers once more a proposal the
\* node has executed before: a pending file of an id the state file lists.
Redeliver ==
    /\ placed < MaxPlaced
    /\ \E id \in ExecutedIds(disk.doc) :
         LET name == StatusName(id, "pending")
         IN /\ name \notin DOMAIN queue
            /\ queue' = Put(queue, name, "ok")
            /\ events' = Notify({name})
    /\ placed' = placed + 1
    /\ UNCHANGED <<archive, rejlog, disk, proc, mem, pc, co, sweep, spawned,
                   ecalls>>
    /\ UNCHANGED apivars

\* The Watch command alone on a queue directory that receives files.
NextWatch ==
    \/ PlaceFile
    \/ Redeliver
    \/ StartWatch
    \/ WatchDispatch
    \/ \E t \in WatchTasks :
         \/ CoExists(t)
         \/ CoValidate(t)
         \/ CoMark(t)
         \/ CoRun(t)
         \/ CoArchive(t)
         \/ CoComplete(t)
         \/ CoRecord(t)
         \/ CoFail(t)

SpecWatch == Init /\ [][NextWatch]_vars

\* Queue directories a daemon finds at its start: any of the pending
\* proposals 1, 2 and 10, and possibly a file an interrupted run left with
\* status executing.
SweepDirs ==
    {[n \in {StatusName(id, "pending") : id \in S}
            \cup (IF e = "none" THEN {} ELSE {StatusName("3", "executing")})
        |-> IF n = StatusName("3", "executing") THEN e ELSE "ok"] :
       S \in SUBSET {"1", "2", "10"}, e \in {"none", "ok", "nonzero"}}

\* A node that has executed nothing, with such a queue directory.
InitSweep ==
    /\ queue \in SweepDirs
    /\ archive = <<>>
    /\ disk = [present |-> FALSE, doc |-> DefaultState]
    /\ rejlog = <<>>
    /\ proc = [p \in Procs |-> "off"]
    /\ mem = [p \in Procs |-> [doc |-> DefaultState, lock |-> "free"]]
    /\ pc = [t \in Tasks |-> "idle"]
    /\ co = [t \in Tasks |-> NoFrame]
    /\ sweep = [files |-> <<>>, i |-> 0, count |-> 0, n |-> 0, last |-> "none"]
    /\ events = {}
    /\ spawned = 0
    /\ placed = 0
    /\ ecalls = <<>>
    /\ api = NoCall
    /\ daglog = <<>>
    /\ sv = NoSaves
    /\ poll = NoPoll
    /\ chan = NoChan
    /\ parse = NoParse

\* The Run command alone on that directory.
NextSweep ==
    \/ StartRun
    \/ DaemonLoop
    \/ SweepList
    \/ SweepNext
    \/ SweepAfter
    \/ CoExists(SweepTask)
    \/ CoValidate(SweepTask)
    \/ CoMark(SweepTask)
    \/ CoRun(SweepTask)
    \/ CoArchive(SweepTask)
    \/ CoComplete(SweepTask)
    \/ CoRecord(SweepTask)
    \/ CoFail(SweepTask)

SpecSweep == InitSweep /\ [][NextSweep]_vars

\* ------------------------------------ state::init, one file operation a step

\* What File::create and the buffered write of save_state (lines 131-137)
\* can do: the file cannot be created; the document is written whole; the
\* serializer's write fails after the file was truncated; the write that
\* BufWriter makes when it is dropped fails, which drop ignores, so that
\* save_state returns Ok over a truncated file.
WriteOutcomes == {"createfail", "written", "writefail", "flushfail"}

\* state::init, lines 86-90: the state file exists and is loaded (a file
\* that does not parse is a State error and main ends), or it does not
\* exist and save_state is called.
SvInit(p) ==
    /\ proc[p] = "off"
    /\ sv.pc[p] = "off"
    /\ IF disk.present
       THEN IF sv.torn
            THEN /\ sv' = [sv EXCEPT !.pc[p] = "done", !.ret[p] = "State"]
                 /\ proc' = [proc EXCEPT ![p] = "dead"]
                 /\ UNCHANGED mem
            ELSE /\ sv' = [sv EXCEPT !.pc[p] = "done", !.ret[p] = "ok"]
                 /\ proc' = [proc EXCEPT ![p] = "up"]
                 /\ mem' = load_state(p)
       ELSE /\ sv' = [sv EXCEPT !.pc[p] = "sv_check"]
            /\ UNCHANGED <<proc, mem>>
    /\ UNCHANGED <<queue, archive, rejlog, disk, pc, co, sweep, events,
                   spawned, placed, ecalls, api, daglog, poll, parse, chan>>

\* save_state, lines 125-128, with backup_state: when the state file
\* exists it is copied to the backup directory; a failed copy is a State
\* error.
SvCheck(p) ==
    /\ sv.pc[p] = "sv_check"
    /\ IF disk.present
       THEN \E copied \in BOOLEAN :
              IF copied
              THEN /\ sv' = [sv EXCEPT !.pc[p] = "sv_write",
                                       !.backed[p] = TRUE,
                                       !.backup = sv.owner]
                   /\ UNCHANGED proc
              ELSE /\ sv' = [sv EXCEPT !.pc[p] = "done", !.ret[p] = "State"]
                   /\ proc' = [proc EXCEPT ![p] = "dead"]
       ELSE /\ sv' = [sv EXCEPT !.pc[p] = "sv_write"]
            /\ UNCHANGED proc
    /\ UNCHANGED <<queue, archive, rejlog, disk, mem, pc, co, sweep, events,
                   spawned, placed, ecalls, api, daglog, poll, parse, chan>>

\* save_state, lines 130-139: File::create truncates the state file and
\* the document of STATE is written through a BufWriter.
SvWrite(p) ==
    /\ sv.pc[p] = "sv_write"
    /\ \E o \in WriteOutcomes :
         LET ret == IF o \in {"written", "flushfail"} THEN "ok" ELSE "State"
             done == [sv EXCEPT !.pc[p] = "done", !.ret[p] = ret,
                                !.out[p] = o]
         IN /\ CASE o = "createfail" ->
                      /\ sv' = done
                      /\ UNCHANGED disk
                 [] o = "written" ->
                      /\ sv' = [done EXCEPT !.owner = p, !.torn = FALSE]
                      /\ disk' = save_state(p)
                 [] OTHER ->
                      /\ sv' = [done EXCEPT !.owner = p, !.torn = TRUE]
                      /\ disk' = [disk EXCEPT !.present = TRUE]
            /\ proc' = [proc EXCEPT ![p] = IF ret = "ok" THEN "up"
                                           ELSE "dead"]
    /\ UNCHANGED <<queue, archive, rejlog, mem, pc, co, sweep, events,
                   spawned, placed, ecalls, api, daglog, poll, parse, chan>>

\* The commands of main.rs start on the same ~/.icn, each a process.
NextSave ==
    \E p \in Savers :
      \/ SvInit(p)
      \/ SvCheck(p)
      \/ SvWrite(p)

SpecSave == Init /\ [][NextSave]_vars

\* A program that initialises the state and calls functions of state.rs and
\* federation.rs one after the other.
NextApi ==
    \/ StartApi
    \/ AddVertexCall
    \/ AddVertexLog
    \/ AddExecutedCall
    \/ SetCall
    \/ SaveStateCall
    \/ LoadStateCall
    \/ Relock
    \/ BroadcastCall
    \/ GetFederationConfig
    \/ BroadcastPeer
    \/ BroadcastSync
    \/ HealthCall
    \/ HealthPeer
    \/ HealthReturn
    \/ GetVertexCall
    \/ GetDagInfoCall

SpecApi == Init /\ [][NextApi]_vars

\* ----------------------------------------------------- reading a state

\* The status a queue file name encodes: the word of its third part; a
\* name without one is implicitly pending.
NameStatus(name) ==
    IF Len(name) = 3 /\ \E st \in Statuses : StatusFile(st) = name[3]
    THEN CHOOSE st \in Statuses : StatusFile(st) = name[3]
    ELSE "pending"

Terminal == {"completed", "failed", "rejected"}

\* The status changes of the proposal state machine.
Allowed ==
    {<<"pending", "rejected">>, <<"pending", "executing">>,
     <<"executing", "completed">>, <<"executing", "failed">>}

\* The executed set and the ledger of a node state.
ExecutedSet(doc) ==
    {doc.executed_proposals[i] : i \in 1..Len(doc.executed_proposals)}

VerticesOf(doc, id) ==
    {i \in 1..Len(doc.dag_vertices) : doc.dag_vertices[i].proposal_id = id}

\* Invocations of the engine in `mode` on the file `name` so far.
Calls(mode, name) ==
    IF <<mode, name>> \in DOMAIN ecalls THEN ecalls[<<mode, name>>] ELSE 0

\* The coordinator call of task t has ended, and its caller with it.
Ended(t) ==
    /\ co[t].name # <<>>
    /\ IF t = SweepTask
       THEN pc[t] \in {"sw_next", "daemon", "hung", "panicked"}
       ELSE pc[t] \in {"done", "hung", "panicked"}

Pending1 == <<"proposal", "1", "pending.dsl">>

\* ------------------------------------------------------------- claims

\* C1 (as claimed): a call of execute_proposal_file for a proposal id that
\* is in the executed set of its process performs no engine call, in
\* validation or in production mode, and leaves the ledger as it is.
C1_Idempotent ==
    [][\A t \in Tasks :
         (/\ pc[t] \in {"co_validate", "co_run"}
          /\ pc'[t] # pc[t]
          /\ co[t].id \in ExecutedSet(mem[ProcOf(t)].doc))
         => /\ ecalls' = ecalls
            /\ mem'[ProcOf(t)].doc.dag_vertices
                 = mem[ProcOf(t)].doc.dag_vertices]_vars

\* C2 (as claimed): every change of a proposal file's name is one of the
\* status changes Pending -> Rejected | Executing -> Completed | Failed,
\* and a file whose name carries a terminal status keeps that name.
C2_Monotonic ==
    [][\A n \in DOMAIN queue \ DOMAIN queue' :
         /\ NameStatus(n) \notin Terminal
         /\ \E m \in DOMAIN queue' :
              /\ ExtractOk(m) /\ ExtractOk(n) /\ m[2] = n[2]
              /\ <<NameStatus(n), NameStatus(m)>> \in Allowed]_vars

\* C3 (as claimed): when the sweep and a watcher task have both found the
\* same pending proposal of payload "ok" and both calls have ended, the
\* engine was invoked in production mode exactly once, the ledger holds
\* exactly one vertex of that proposal and its archived file exists.
C3_SingleExecution ==
    \A w \in WatchTasks :
      (/\ co[SweepTask].name = Pending1 /\ co[w].name = Pending1
       /\ co[SweepTask].id = "1" /\ co[w].id = "1"
       /\ Ended(SweepTask) /\ Ended(w)
       /\ \E n \in DOMAIN queue :
            ExtractOk(n) /\ n[2] = "1" /\ queue[n] = "ok")
      => /\ Calls("execute", Pending1)
              + Calls("execute", StatusName("1", "executing")) = 1
         /\ \E p \in {"run", "watch"} :
              Cardinality(VerticesOf(mem[p].doc, "1")) = 1
         /\ StatusName("1", "completed") \in DOMAIN archive

\* C4 (as claimed): when a sweep that listed proposal_1_pending.dsl with
\* payload "ok" has ended, executed/proposal_1_completed.dsl exists, "1" is
\* in the executed set and the ledger holds one entry more, of proposal 1.
C4_ScenarioA ==
    (/\ pc[SweepTask] \in {"daemon", "hung", "panicked"}
     /\ \E i \in 1..Len(sweep.files) : sweep.files[i] = Pending1
     /\ \E n \in DOMAIN queue : queue[n] = "ok" /\ ExtractOk(n) /\ n[2] = "1")
    => /\ StatusName("1", "completed") \in DOMAIN archive
       /\ "1" \in ExecutedSet(mem["run"].doc)
       /\ Len(mem["run"].doc.dag_vertices) = Len(disk.doc.dag_vertices) + 1
       /\ mem["run"].doc.dag_vertices[Len(mem["run"].doc.dag_vertices)]
              .proposal_id = "1"

\* C5 (as claimed): when the processing of a proposal that failed
\* validation has ended, its file is named proposal_<id>_rejected.dsl, the
\* rejection log names the id, no vertex of it exists, the id is in no
\* executed set and the engine was never run on it in production mode.
C5_ScenarioB ==
    \A t \in Tasks :
      (/\ Ended(t) /\ co[t].ret = "Validation"
       /\ \E i \in 1..Len(rejlog) : rejlog[i].id = co[t].id)
      => /\ StatusName(co[t].id, "rejected") \in DOMAIN queue
         /\ StatusName(co[t].id, "failed") \notin DOMAIN queue
         /\ StatusName(co[t].id, "executing") \notin DOMAIN queue
         /\ \A p \in Procs :
              /\ VerticesOf(mem[p].doc, co[t].id) = {}
              /\ co[t].id \notin ExecutedSet(mem[p].doc)
         /\ Calls("execute", co[t].name) = 0

\* The status a step of task t has just given a queue file by a successful
\* update_proposal_status, "none" when the step is no such transition.
Transition(t) ==
    CASE pc[t] = "co_mark" /\ pc'[t] = "co_run" -> "executing"
      [] pc[t] = "co_complete" /\ pc'[t] = "co_record" -> "completed"
      [] pc[t] = "co_fail" /\ pc'[t] # "co_fail" /\ co'[t].ret = "ok" -> "failed"
      [] pc[t] = "sw_after" /\ pc'[t] = "sw_next" /\ co[t].ret # "ok" -> "failed"
      [] OTHER -> "none"

\* The files of the queue directory q that match proposal id and status.
Matching(q, id, status) ==
    {m \in DOMAIN q : ExtractOk(m) /\ m[2] = id /\ NameStatus(m) = status}

C10_EngineFailure ==
    [][\A t \in Tasks :
         /\ (pc[t] = "co_run" /\ co'[t].eng = "nonzero" /\ co[t].dir = "queue")
            => (mem' = mem /\ archive' = archive /\ pc'[t] = "co_fail")
         /\ (pc[t] = "co_fail" /\ pc'[t] # "co_fail" /\ co[t].dir = "queue")
            => /\ mem' = mem /\ archive' = archive /\ disk' = disk
               /\ IF RenameOk(co[t].name)
                  THEN /\ StatusName(co[t].id, "failed") \in DOMAIN queue'
                       /\ queue'[StatusName(co[t].id, "failed")]
                            = queue[co[t].name]
                       /\ Matching(queue', co[t].id, "executing")
                            \subseteq Matching(queue, co[t].id, "executing")
                               \ {co[t].name}
                       /\ co'[t].ret = "ok"
                  ELSE /\ queue' = queue
                       /\ co'[t].ret = "Queue"]_vars

\* C10 witness: a coordinator call returned its result after a non-zero
\* status code and the file carries status failed.
C10_Witness ==
    \E t \in Tasks :
      /\ co[t].dir = "queue" /\ co[t].eng = "nonzero" /\ co[t].ret = "ok"
      /\ StatusName(co[t].id, "failed") \in DOMAIN queue
      /\ StatusName(co[t].id, "completed") \notin DOMAIN archive

\* A call of the crate function op has ended: it returned, it panicked, or
\* it waits for the lock for ever.
CallEnded(op) == api.op = op /\ api.pc \in {"idle", "hung"}

C7_AppendOnly ==
    [][\A p \in Procs :
         /\ Len(Ledger(p)') >= Len(Ledger(p))
         /\ \A i \in 1..Len(Ledger(p)) : Ledger(p)'[i] = Ledger(p)[i]]_vars

\* C9 (as claimed): every call of broadcast_vertex ends by returning
\* success, whatever the peers answer.
C9_NonFatal ==
    CallEnded("broadcast_vertex") => api.ret = "ok"

\* A call of the coordinator is between its entry and its return.
InCall(t) ==
    pc[t] \in {"co_exists", "co_validate", "co_mark", "co_run", "co_archive",
               "co_complete", "co_record", "co_fail"}

\* C11 (as claimed): whenever a call of the coordinator has returned, with
\* a result or with an error, and no other call is on its way, the three
\* success effects agree for its proposal id: the archived completed file
\* exists exactly when the id is in the executed set, and exactly when the
\* ledger holds a vertex of it.
C11_NoPartialEffects ==
    \A t \in Tasks :
      (co[t].ret # "none" /\ \A u \in Tasks : ~InCall(u))
      => LET id == co[t].id
             doc == mem[ProcOf(t)].doc
             archived == StatusName(id, "completed") \in DOMAIN archive
             executed == id \in ExecutedSet(doc)
             vertex == VerticesOf(doc, id) # {}
         IN (archived <=> executed) /\ (executed <=> vertex)

\* C12 (as claimed): a call of the coordinator that has ended after the
\* engine returned a status code has returned a result, and a call that
\* has returned an error has returned a Validation error.
C12_ResultOrValidation ==
    \A t \in Tasks :
      /\ (Ended(t) /\ co[t].eng # "none") => co[t].ret = "ok"
      /\ co[t].ret \in {"none", "ok", "Validation"}

\* C13 (as claimed): the watcher never invokes the coordinator for a file
\* whose proposal id is in the executed set of its process.
C13_WatcherChecksExecuted ==
    [][\A w \in WatchTasks :
         (pc[w] = "idle" /\ pc'[w] = "co_exists")
         => ~(/\ ExtractOk(co'[w].name)
              /\ extract_proposal_id(co'[w].name)
                   \in ExecutedSet(mem["watch"].doc))]_vars

\* C14 (as claimed): every file the sweep hands to the coordinator has a
\* name that encodes status pending (the suffix pending, or no suffix).
C14_SweepOnlyPending ==
    [][(pc[SweepTask] = "sw_next" /\ pc'[SweepTask] = "co_exists")
       => NameStatus(co'[SweepTask].name) = "pending"]_vars

\* The number a numeric proposal id denotes.
IdValue(id) ==
    CASE id = "1" -> 1 [] id = "2" -> 2 [] id = "3" -> 3 [] id = "10" -> 10

\* Identifier a comes before identifier b, as numbers and as strings alike.
IdLess(a, b) ==
    /\ IdValue(a) < IdValue(b)
    /\ BytesLess(PartBytes(a), PartBytes(b))

\* C15 (as claimed): when the sweep dispatches a pending file, no pending
\* file it has listed and not yet reached has a smaller identifier.
C15_SweepOrder ==
    [][(pc[SweepTask] = "sw_next" /\ pc'[SweepTask] = "co_exists")
       => \A k \in (sweep.i + 1)..Len(sweep.files) :
            (/\ NameStatus(sweep.files[k]) = "pending"
             /\ NameStatus(sweep.files[sweep.i]) = "pending")
            => ~IdLess(extract_proposal_id(sweep.files[k]),
                       extract_proposal_id(sweep.files[sweep.i]))]_vars

\* C16 (as claimed): a save that overwrites an existing state file has
\* written a backup before, and when the overwrite begins that backup holds
\* the version the state file holds.
C16_BackupBeforeOverwrite ==
    [][\A p \in Savers :
         (/\ sv.pc[p] = "sv_write" /\ sv'.pc[p] = "done"
          /\ sv'.out[p] # "createfail"
          /\ disk.present)
         => (sv.backed[p] /\ sv.backup = sv.owner)]_vars

\* C17 (as claimed): a save that reports failure leaves the state file as
\* it was, and a save that reports success leaves it holding the whole new
\* document.
C17_AllOrNothing ==
    [][\A p \in Savers :
         (sv.pc[p] = "sv_write" /\ sv'.pc[p] = "done")
         => IF sv'.ret[p] = "ok"
            THEN /\ disk'.present /\ ~sv'.torn
                 /\ disk'.doc = mem[p].doc
            ELSE /\ disk' = disk
                 /\ sv'.torn = sv.torn]_vars

\* The two mutators of state.rs that the coordinator calls.
Mutators == {"add_vertex", "add_executed_proposal"}

\* The effect of mutator `op` called with `arg` is in the document.
EffectIn(op, arg, doc) ==
    IF op = "add_vertex"
    THEN \E i \in 1..Len(doc.dag_vertices) : doc.dag_vertices[i] = arg
    ELSE arg \in ExecutedSet(doc)

CompletedIds(q, a) ==
    {extract_proposal_id(n) :
       n \in {m \in DOMAIN q \cup DOMAIN a :
                ExtractOk(m) /\ NameStatus(m) = "completed"}}

\* C19 (as claimed): when a process has started, its executed set is the set
\* of the ids that have a completed file on disk.
C19_ReconciledOnStart ==
    [][\A p \in Procs :
         (proc[p] = "off" /\ proc'[p] = "up")
         => ExecutedSet(mem'[p].doc) = CompletedIds(queue', archive')]_vars

\* C20 (as claimed): when the coordinator called by the sweep returned an
\* Execution error after the engine was invoked on its path, the sweep's
\* next step leaves the proposal with a file of status failed and none of
\* status executing or pending, and the daemon keeps running.
C20_InvocationFailure ==
    [][(/\ pc[SweepTask] = "sw_after" /\ pc'[SweepTask] # "sw_after"
        /\ co[SweepTask].ret = "Execution"
        /\ Calls("execute", co[SweepTask].name) > 0)
       => /\ StatusName(co[SweepTask].id, "failed") \in DOMAIN queue'
          /\ StatusName(co[SweepTask].id, "executing") \notin DOMAIN queue'
          /\ StatusName(co[SweepTask].id, "pending") \notin DOMAIN queue'
          /\ pc'[SweepTask] \in {"sw_next", "daemon"}
          /\ proc'["run"] = "up"]_vars

\* C21 (as claimed): every sweep the daemon starts is followed by the
\* daemon being back at the head of its loop, alive, whatever happened in
\* the sweep.
C21_DaemonLiveness ==
    [](pc[SweepTask] = "sw_list"
       => <>(pc[SweepTask] = "daemon" /\ proc["run"] = "up"))

\* The places in the network log of the running broadcast that are
\* requests of kind `kind` to `peer`.
NetAt(peer, kind) ==
    {k \in 1..Len(api.net) : api.net[k][1] = peer /\ api.net[k][2] = kind}

\* C22: in a broadcast, a push to a peer directly follows a successful
\* probe of that peer, a peer whose probe failed gets no push, and no peer
\* is probed or pushed twice.
C22_ProbeBeforePush ==
    api.op = "broadcast_vertex"
    => /\ \A k \in 1..Len(api.net) :
            api.net[k][2] = "push"
            => k > 1 /\ api.net[k - 1] = <<api.net[k][1], "probe", "up">>
       /\ \A i \in 1..Len(api.peers) :
            LET peer == api.peers[i]
            IN /\ Cardinality(NetAt(peer, "probe")) <= 1
               /\ Cardinality(NetAt(peer, "push")) <= 1
               /\ (\E k \in NetAt(peer, "probe") : api.net[k][3] = "down")
                  => NetAt(peer, "push") = {}
               /\ i > api.i => NetAt(peer, "probe") = {}

\* C22 witness: a broadcast has returned after it probed two peers, one
\* that answered and was pushed to, one that did not and was not.
C22_Witness ==
    /\ api.op = "broadcast_vertex" /\ api.pc = "idle" /\ api.ret = "ok"
    /\ \E a, b \in 1..Len(api.peers) :
         /\ NetAt(api.peers[a], "push") # {}
         /\ \E k \in NetAt(api.peers[b], "probe") : api.net[k][3] = "down"

\* The places of a peer list of the returned status that hold `peer`.
PlacesIn(list, peer) == {k \in 1..Len(list) : list[k].peer = peer}

\* C23: the status a health check returns holds every configured peer
\* exactly once, in online_peers exactly when its probe succeeded; an
\* online peer's last_seen is the time of the check and an offline peer's
\* is the one of the configuration.
C23_HealthPartition ==
    (api.op = "check_federation_health" /\ api.pc = "idle" /\ api.ret = "ok")
    => /\ Len(api.online) + Len(api.offline) = Len(api.peers)
       /\ \A i \in 1..Len(api.peers) :
            LET peer == api.peers[i]
                on == PlacesIn(api.online, peer)
                off == PlacesIn(api.offline, peer)
            IN /\ Cardinality(on) + Cardinality(off) = 1
               /\ on # {} <=> <<peer, "probe", "up">> = api.net[i]
               /\ \A k \in on : api.online[k].last_seen = "now"
               /\ \A k \in off : api.offline[k].last_seen = ConfigSeen(peer)

\* C23 witness: a health check returned a status with a peer online and a
\* peer offline.
C23_Witness ==
    /\ api.op = "check_federation_health" /\ api.pc = "idle" /\ api.ret = "ok"
    /\ api.online # <<>> /\ api.offline # <<>>

\* federation::broadcast_vertex has been invoked with a vertex of the
\* proposal `id`.
BroadcastOf(id) == api.op = "broadcast_vertex" /\ api.arg.proposal_id = id

\* C24 (as claimed): when the engine has returned status code zero for a
\* proposal of the sweep and the coordinator goes on to record it, a vertex
\* of that proposal is eventually handed to broadcast_vertex.
C24_CommitLeadsToBroadcast ==
    \A id \in {"1", "2"} :
      (pc[SweepTask] = "co_record" /\ co[SweepTask].id = id)
      ~> BroadcastOf(id)

\* C25 (as claimed): with a readable state, get_vertex returns the ledger
\* entry that has the id when there is one, and a Dag error when there is
\* none.
C25_VertexLookup ==
    (/\ api.op = "get_vertex" /\ api.pc = "idle"
     /\ mem[ApiProc].lock # "poisoned")
    => IF \E k \in 1..Len(Ledger(ApiProc)) : Ledger(ApiProc)[k].id = api.arg
       THEN /\ api.ret = "ok"
            /\ \E k \in 1..Len(Ledger(ApiProc)) :
                 Ledger(ApiProc)[k] = api.found /\ api.found.id = api.arg
       ELSE api.ret = "Dag"

\* C26 (as claimed): the poller never ends, its last-observed length never
\* exceeds the ledger's, and every entry the ledger of the watch process
\* holds is eventually notified, in the ledger's order.
C26_PollerNotifies ==
    /\ [](poll.pc = "run" /\ poll.last_count <= Len(Ledger("watch")))
    /\ \A k \in 1..2 :
         [](Len(Ledger("watch")) >= k
            => <>(/\ Len(poll.sent) >= k
                  /\ poll.sent[k] = Ledger("watch")[k].id))

CallsIn(e, mode, name) ==
    IF <<mode, name>> \in DOMAIN e THEN e[<<mode, name>>] ELSE 0

\* C29 (as claimed): when the coordinator invokes the engine with
\* production options, validation has been run unless force is set, and a
\* queued proposal has a file of status executing, which is the file the
\* engine is invoked on.
C29_ValidationGateAndOrder ==
    [][\A t \in Tasks :
         (pc[t] = "co_run" /\ pc'[t] # "co_run")
         => /\ ~co[t].force => Calls("simulate", co[t].name) > 0
            /\ co[t].dir = "queue"
               => LET n == StatusName(co[t].id, "executing")
                  IN /\ n \in DOMAIN queue
                     /\ CallsIn(ecalls', "execute", n)
                          = CallsIn(ecalls, "execute", n) + 1]_vars

\* C30 (as claimed): extract_proposal_id returns exactly <id> for
\* proposal_<id>_<status>.dsl and for proposal_<id>.dsl, the name a
\* transition of the file produces parses back to <id>, and a name outside
\* the convention is a Queue error.
C30_IdRoundTrip ==
    /\ parse.step \in {"parsed", "renamed", "reparsed"}
       => IF parse.form = "other"
          THEN parse.ret = "Queue"
          ELSE parse.ret = "ok" /\ parse.got = parse.id
    /\ parse.step = "reparsed"
       => parse.ret2 = "ok" /\ parse.got2 = parse.id

\* ------------------------------------------------- queue.rs, the rename

\* A rename that lost the source file although it failed.
update_proposal_status_lossy(name, status) ==
    IF RenameOk(name)
    THEN [ret |-> "ok", dir |-> update_proposal_status(name, status)]
    ELSE [ret |-> "Queue", dir |-> Drop(queue, name)]

\* queue::update_proposal_status, lines 185-209, with its result: the id is
\* extracted first (`?`, line 186), then fs::rename runs (lines 204-206);
\* either failure is mapped to NodeError::Queue and the directory is as it
\* was, a success leaves the renamed directory.
update_proposal_status_result(name, status) ==
    IF RenameOk(name)
    THEN [ret |-> "ok", dir |-> update_proposal_status(name, status)]
    ELSE [ret |-> "Queue", dir |-> queue]

\* The paths a caller hands to update_proposal_status: every file of the
\* directory, a conforming name, and a name off the convention, present in
\* the directory or not.
RenameNames == DOMAIN queue \cup {Pending1, <<"notes.dsl">>}

\* update_proposal_status is called on its own.
RenameCall ==
    /\ api.pc = "idle"
    /\ api.calls < MaxCalls
    /\ \E name \in RenameNames, status \in Statuses :
         LET r == update_proposal_status_result(name, status)
         IN /\ queue' = r.dir
            /\ events' = IF r.ret = "ok"
                         THEN Notify(RenameEvents(name, status))
                         ELSE events
            /\ api' = Returned(Begin("update_proposal_status",
                                     [name |-> name, status |-> status]),
                               r.ret)
    /\ UNCHANGED <<archive, rejlog, disk, proc, mem, pc, co, sweep, spawned,
                   placed, ecalls, daglog, sv, poll, parse, chan>>

\* Files arrive in the queue directory and are renamed by callers of
\* update_proposal_status.
NextRename ==
    \/ PlaceFile
    \/ RenameCall

SpecRename == Init /\ [][NextRename]_vars

\* C31: a call of update_proposal_status whose file name does not match the
\* convention, or whose source file is not in the directory, returns a Queue
\* error; and every call that returns a Queue error leaves the content of
\* the queue directory as it was.
C31_RenameFailure ==
    [][(/\ api'.op = "update_proposal_status"
        /\ api'.calls = api.calls + 1)
       => LET name == api'.arg.name
          IN /\ (~ExtractOk(name) \/ name \notin DOMAIN queue)
                  => api'.ret = "Queue"
             /\ api'.ret = "Queue" => queue' = queue]_vars

\* Both failures have happened: a conforming name whose file is gone, and
\* a file of the directory whose name is off the convention.
C31_Witness ==
    /\ api.op = "update_proposal_status"
    /\ api.ret = "Queue"
    /\ api.prev.op = "update_proposal_status"
    /\ api.prev.ret = "Queue"
    /\ ExtractOk(api.arg.name)
    /\ api.arg.name \notin DOMAIN queue
    /\ ~ExtractOk(api.prev.arg.name)
    /\ api.prev.arg.name \in DOMAIN queue

\* ----------------------------------------- main.rs, watch_dag_and_queue

\* Filesystem events the watcher delivers while the model follows it.
MaxEvents == 3

\* tokio::sync::mpsc::channel(100), lines 133-134.
ChannelCapacity == 100

\* The paths of the watcher's events and their kinds.
EventPaths == {Pending1, StatusName("1", "executing"), <<"notes.dsl">>,
               <<"readme.txt">>}

EventKinds == {"create", "modify", "remove"}

\* The sender of the ledger poller's channel is dropped when watch_dag
\* returns, that of the queue watcher's when watch_queue returns.
DagClosed == poll.pc = "ended"

QueueClosed == chan.qpc = "ended"

\* The ledger poller's channel: what watch_dag has sent and the consumer
\* has not received yet.
DagLogged == Len(SelectSeq(chan.got, LAMBDA e : e.src = "dag"))

dag_rx == SubSeq(poll.sent, DagLogged + 1, Len(poll.sent))

\* A loop that ends as soon as one of the producers has ended.
EitherClosed ==
    \/ DagClosed /\ dag_rx = <<>>
    \/ QueueClosed /\ chan.queueq = <<>>

\* The `else` branch of select!, line 160: both patterns Some(event) have
\* failed, that is both recv() returned None, which a channel does when it
\* is empty and every sender is dropped.
BothClosed ==
    /\ DagClosed /\ dag_rx = <<>>
    /\ QueueClosed /\ chan.queueq = <<>>

\* watch_queue, lines 129-143: the directory is created and the watcher set
\* up; an error of either ends watch_queue and drops its sender.
WatchQueueSetup ==
    /\ proc["watch"] = "up"
    /\ chan.pc = "loop"
    /\ chan.qpc = "setup"
    /\ \E r \in {"ok", "Queue"} :
         chan' = [chan EXCEPT !.qpc = IF r = "ok" THEN "recv" ELSE "ended"]
    /\ UNCHANGED <<queue, archive, rejlog, disk, proc, mem, pc, co, sweep,
                   events, spawned, placed, ecalls, api, daglog, sv, poll,
                   parse>>

\* watch_queue, lines 146-151: the next event of the watcher; a Create or
\* Modify event of a path with extension dsl is handled, any other event
\* is passed over.
WatchQueueRecv ==
    /\ proc["watch"] = "up"
    /\ chan.pc = "loop"
    /\ chan.qpc = "recv"
    /\ chan.fs < MaxEvents
    /\ \E path \in EventPaths, kind \in EventKinds :
         chan' = IF kind \in {"create", "modify"} /\ HasDslExt(path)
                 THEN [chan EXCEPT !.fs = @ + 1, !.cur = path,
                                   !.qpc = "send"]
                 ELSE [chan EXCEPT !.fs = @ + 1]
    /\ UNCHANGED <<queue, archive, rejlog, disk, proc, mem, pc, co, sweep,
                   events, spawned, placed, ecalls, api, daglog, sv, poll,
                   parse>>

\* watch_queue, lines 152-162: tx.send(..).await, which waits while the
\* channel is full, then the spawn of the detached execution task (the
\* task itself is not followed here).
WatchQueueSend ==
    /\ proc["watch"] = "up"
    /\ chan.pc = "loop"
    /\ chan.qpc = "send"
    /\ Len(chan.queueq) < ChannelCapacity
    /\ chan' = [chan EXCEPT !.queueq = Append(@, chan.cur),
                            !.qsent = Append(@, chan.cur),
                            !.spawns = @ + 1,
                            !.cur = <<>>,
                            !.qpc = "recv"]
    /\ UNCHANGED <<queue, archive, rejlog, disk, proc, mem, pc, co, sweep,
                   events, spawned, placed, ecalls, api, daglog, sv, poll,
                   parse>>

\* watch_dag_and_queue, lines 151-162, one turn of the consumer's loop:
\* select! takes an event of either channel that has one, in no fixed
\* order, and logs it; when both recv() return None the loop ends.
SelectRecv ==
    /\ proc["watch"] = "up"
    /\ chan.pc = "loop"
    /\ \/ /\ dag_rx # <<>>
          /\ chan' = [chan EXCEPT
                        !.got = Append(@, [src |-> "dag",
                                           ev |-> Head(dag_rx)])]
       \/ /\ chan.queueq # <<>>
          /\ chan' = [chan EXCEPT
                        !.got = Append(@, [src |-> "queue",
                                           ev |-> Head(chan.queueq)]),
                        !.queueq = Tail(@)]
       \/ /\ BothClosed
          /\ chan' = [chan EXCEPT !.pc = "stopped"]
    /\ UNCHANGED <<queue, archive, rejlog, disk, proc, mem, pc, co, sweep,
                   events, spawned, placed, ecalls, api, daglog, sv, poll,
                   parse>>

\* The Watch command: the ledger poller, the queue watcher and the consumer
\* of their channels.
NextSelect ==
    \/ StartWatch
    \/ PollDag
    \/ WatchQueueSetup
    \/ WatchQueueRecv
    \/ WatchQueueSend
    \/ SelectRecv

SpecSelect == Init /\ [][NextSelect]_vars

\* The events of one producer the consumer has logged, in the order of
\* their logging.
Logged(src) ==
    LET s == SelectSeq(chan.got, LAMBDA e : e.src = src)
    IN [k \in 1..Len(s) |-> s[k].ev]

\* C32: the events of each producer that the consumer has logged, followed
\* by those still in that producer's channel, are the events the producer
\* has sent, in the order of sending, each once; and the consumer has left
\* its loop only if both producers have ended.
C32_PerStreamOrder ==
    /\ Logged("queue") \o chan.queueq = chan.qsent
    /\ Len(Logged("dag")) <= Len(poll.sent)
    /\ Logged("dag") = SubSeq(poll.sent, 1, Len(Logged("dag")))
    /\ chan.pc = "stopped" => DagClosed /\ QueueClosed

\* The consumer has logged two different events of the queue watcher and a
\* third is in the channel, after the ledger poller has ended.
C32_Witness ==
    /\ Len(Logged("queue")) = 2
    /\ Logged("queue")[1] # Logged("queue")[2]
    /\ chan.queueq # <<>>
    /\ DagClosed
    /\ chan.pc = "loop"

\* C33 (as claimed): with a readable state, get_dag_info returns the summary
\* of the ledger: vertex_count its length, root_count one, tips the id of
\* the last entry alone (none for an empty ledger), tip_count the number of
\* tips, latest_update the timestamp of the last entry.
C33_LedgerSummary ==
    (/\ api.op = "get_dag_info" /\ api.pc = "idle"
     /\ mem[ApiProc].lock # "poisoned")
    => LET l == Ledger(ApiProc)
           n == Len(l)
       IN /\ api.ret = "ok"
          /\ api.found.vertex_count = n
          /\ api.found.root_count = 1
          /\ api.found.tips = IF n > 0 THEN <<l[n].id>> ELSE <<>>
          /\ api.found.tip_count = Len(api.found.tips)
          /\ n > 0 => api.found.latest_update = l[n].id

\* C34 (as claimed): no state mutator asks for the lock of STATE while its
\* own guard is alive, none waits for that lock forever, and none ends in
\* a panic: every call returns success or an error with the lock released.
C34_MutatorsTerminate ==
    api.op \in Mutators \cup {"set"}
    => /\ ~(api.pc = "relock" /\ mem[ApiProc].lock = "held")
       /\ api.pc # "hung"
       /\ api.ret # "panic"
       /\ api.pc = "idle" => mem[ApiProc].lock # "held"

\* C35 (as claimed): a status change that a coordinator call makes in the
\* queue directory raises no event for the watcher to dispatch on, and the
\* watcher has spawned at most one execution task per file placed.
C35_NoSelfDispatch ==
    [][/\ \A t \in Tasks : Transition(t) # "none" => events' \subseteq events
       /\ spawned' <= placed']_vars

\* C36 (as claimed): when the execution of a file of the sweep has returned
\* an error and the listing holds files after it, the sweep goes on to the
\* next file of its listing: the error of one proposal does not end the
\* sweep.
C36_SweepContinues ==
    [][(/\ pc[SweepTask] = "sw_after"
        /\ pc'[SweepTask] # "sw_after"
        /\ co[SweepTask].ret # "ok"
        /\ sweep.i < Len(sweep.files))
       => /\ pc'[SweepTask] = "sw_next"
          /\ sweep'.i = sweep.i + 1]_vars

\* C37 (as claimed): a call of state::add_vertex that has returned an error
\* leaves the ledger in memory as it was when the call began, equal to the
\* ledger of the state file.
C37_FailedAppendUnchanged ==
    (/\ api.op = "add_vertex" /\ api.pc = "idle"
     /\ api.ret \in {"Io", "State"})
    => /\ Ledger(ApiProc) = api.pre
       /\ api.prev.op = "none" => Ledger(ApiProc) = disk.doc.dag_vertices

\* C38 (as claimed): no step of a coordinator call for a file outside the
\* queue directory changes the queue directory or the executed archive,
\* and when its engine run returned status zero the call returns success
\* with the id in the executed set and one more vertex, of that id, in the
\* ledger.
C38_OutsideQueue ==
    [][\A t \in Tasks :
         (co[t].dir = "outside" /\ pc'[t] # pc[t])
         => /\ queue' = queue
            /\ archive' = archive
            /\ (pc[t] = "co_record" /\ co[t].eng = "zero")
               => LET l == Ledger(ProcOf(t))'
                  IN /\ pc'[t] = "done"
                     /\ co'[t].ret = "ok"
                     /\ co[t].id \in ExecutedSet(mem'[ProcOf(t)].doc)
                     /\ Len(l) = Len(Ledger(ProcOf(t))) + 1
                     /\ l[Len(l)].proposal_id = co[t].id]_vars

====
